---- MODULE Spec2Model ----
(***************************************************************************)
(* Model of the two Streamlit dashboard scripts of student-dashboard:      *)
(*   Student_data.py         ("main")                                      *)
(*   Student_data_backup.py  ("backup")                                    *)
(* A Streamlit script is re-executed top to bottom on every widget         *)
(* interaction; widget values persist in the session between the runs.     *)
(* One action per step of the script; pc is the script's position.         *)
(*                                                                         *)
(* Numbers.  A CSV cell is <<>> (missing, pandas NaN) or <<v>> with v an   *)
(* integer number of TENTHS of a point (900 is 90.0, 805 is 80.5).  A mean  *)
(* is the exact rational [num, den] in tenths, den = 0 being NaN (the mean  *)
(* of no values).  Binary floating point rounding is not modelled.         *)
(***************************************************************************)
EXTENDS Integers, Sequences, FiniteSets

VARIABLES script, exists, csv, cache, df, clicked, widgets, grades, attendance,
          filtered, kpi, ran, warned, err, pc

vars == <<script, exists, csv, cache, df, clicked, widgets, grades, attendance,
          filtered, kpi, ran, warned, err, pc>>

\* Longest CSV table drawn at Init.
MaxRows == 2

----------------------------------------------------------------------------
\* Cells and numbers

NA == <<>>
Num(v) == <<v>>
IsNA(c) == Len(c) = 0
Val(c) == c[1]

\* p points in the model's unit (tenths of a point).
Pts(p) == 10 * p

NaNMean == [num |-> 0, den |-> 0]
IsNaN(q) == q.den = 0

\* Python's  q >= p  for a float q and the literal p (in points): False for NaN.
Geq(q, p) == q.den > 0 /\ q.num >= Pts(p) * q.den

\* q1 < q2 for two numbers that are not NaN.
Less(q1, q2) == q1.num * q2.den < q2.num * q1.den

\* n / d rounded to the nearest integer, ties to even (d > 0).
RoundHalfEven(n, d) ==
    LET q == n \div d
        r == n - q * d
    IN  IF 2 * r < d THEN q
        ELSE IF 2 * r > d THEN q + 1
        ELSE IF q % 2 = 0 THEN q ELSE q + 1

----------------------------------------------------------------------------
\* The data: rows of data/student_data2.csv

subjects == <<"Math", "Science", "English">>

Row(name, m, s, e, a) ==
    [Name |-> name, Math |-> m, Science |-> s, English |-> e, Attendance |-> a]

\* The rows a CSV of the model is made of: grade and attendance boundaries,
\* values out of range, and missing cells.
Rows ==
    { Row("Asha",  Num(950),  Num(850),  Num(1000), Num(920)),
      Row("Bala",  Num(600),  Num(650),  Num(700),  Num(750)),
      Row("Chitra", Num(900), Num(900),  Num(900),  Num(800)),
      Row("Dev",   Num(900),  Num(900),  Num(890),  Num(805)),
      Row("Esha",  Num(1100), Num(1000), Num(1050), Num(1000)),
      Row("Farid", NA,        NA,        NA,        Num(-50)),
      Row("Gita",  Num(1000), NA,        Num(800),  Num(1050)),
      Row("Hari",  Num(700),  Num(700),  Num(700),  Num(0)),
      Row("Indu",  Num(800),  Num(800),  Num(800),  NA),
      Row("Jaya",  Num(800),  Num(800),  Num(790),  Num(900)) }

Tables == UNION { [1..n -> Rows] : n \in 0..MaxRows }

Scripts == {"main", "backup"}

----------------------------------------------------------------------------
\* Derivation

RECURSIVE Sum(_)
Sum(xs) == IF Len(xs) = 0 THEN 0 ELSE Head(xs) + Sum(Tail(xs))

\* df[cols].mean(axis=1) on one row: pandas skips NaN (skipna=True); the mean
\* of no value is NaN.
RowMean(r, cols) ==
    LET v(c) == IF IsNA(r[cols[c]]) THEN 0 ELSE Val(r[cols[c]])
    IN  [num |-> Sum([c \in 1..Len(cols) |-> v(c)]),
         den |-> Cardinality({ c \in 1..Len(cols) : ~IsNA(r[cols[c]]) })]

\* The mean of the first two subject columns only.
Average_Score_two_subjects(r) == RowMean(r, SubSeq(subjects, 1, 2))

\* Student_data.py, df["Average_Score"] = df[subjects].mean(axis=1)
Average_Score(r) == RowMean(r, subjects)

\* Student_data_backup.py, df['Average_Score'] = df[subjects].mean(axis=1)
load_data_Average_Score(r) == RowMean(r, subjects)

\* grade with > for >= at the first threshold.
grade_strict(score) ==
    IF Geq(score, 90) /\ score.num # Pts(90) * score.den THEN "A"
    ELSE IF Geq(score, 80) THEN "B"
    ELSE IF Geq(score, 70) THEN "C"
    ELSE "D"

\* Student_data.py, grade(score)
grade(score) ==
    IF Geq(score, 90) THEN "A"
    ELSE IF Geq(score, 80) THEN "B"
    ELSE IF Geq(score, 70) THEN "C"
    ELSE "D"

\* Student_data_backup.py, load_data.assign_grade(score)
assign_grade(score) ==
    IF Geq(score, 90) THEN "A"
    ELSE IF Geq(score, 80) THEN "B"
    ELSE IF Geq(score, 70) THEN "C"
    ELSE "D"

\* Series.clip(lower, upper) on one cell (in points): NaN stays NaN.
clip(c, lower, upper) ==
    IF IsNA(c) THEN NA
    ELSE IF Val(c) < Pts(lower) THEN Num(Pts(lower))
    ELSE IF Val(c) > Pts(upper) THEN Num(Pts(upper))
    ELSE c

\* pd.cut(x, bins=[0, 80, 90, 100], labels=[Low, Medium, High], right=True) on
\* one cell: intervals (0,80], (80,90], (90,100]; include_lowest closes the
\* first interval on the left; a value in no interval, or NaN, gives NaN.
cut(c, include_lowest) ==
    IF IsNA(c) THEN "NaN"
    ELSE LET x == Val(c)
         IN  IF (x > Pts(0) \/ (include_lowest /\ x = Pts(0))) /\ x <= Pts(80)
             THEN "Low"
             ELSE IF x > Pts(80) /\ x <= Pts(90) THEN "Medium"
             ELSE IF x > Pts(90) /\ x <= Pts(100) THEN "High"
             ELSE "NaN"

\* Student_data.py, df["Attendance_Level"] = pd.cut(df["Attendance"], ...)
Attendance_Level(r) == cut(r.Attendance, FALSE)

\* Student_data_backup.py, pd.cut(df['Attendance'].clip(0, 100), ...,
\* include_lowest=True)
load_data_Attendance_Level(r) == cut(clip(r.Attendance, 0, 100), TRUE)

Derived(r, avg, g, lvl) ==
    [Name |-> r.Name, Math |-> r.Math, Science |-> r.Science,
     English |-> r.English, Attendance |-> r.Attendance,
     Average_Score |-> avg, Grade |-> g, Attendance_Level |-> lvl]

\* Student_data.py lines 19-36: the derived table of a CSV
main_derive(t) ==
    [i \in 1..Len(t) |->
        Derived(t[i], Average_Score(t[i]), grade(Average_Score(t[i])),
                Attendance_Level(t[i]))]

\* Student_data_backup.py, load_data() past the existence check
load_data(t) ==
    [i \in 1..Len(t) |->
        Derived(t[i], load_data_Average_Score(t[i]),
                assign_grade(load_data_Average_Score(t[i])),
                load_data_Attendance_Level(t[i]))]

----------------------------------------------------------------------------
\* Filtering

\* isin taking an empty selection for "no filter".
isin_empty_is_all(v, values) == values = {} \/ v \in values

\* Series.isin(values): membership; a missing value (NaN) in values matches the
\* missing entries of the column.
isin(v, values) == v \in values

\* The boolean mask of df[mask]: the rows of t whose two masks are both True,
\* in t's order.
Mask(t, g, a) ==
    SelectSeq(t, LAMBDA r : isin(r.Grade, g) /\ isin(r.Attendance_Level, a))

\* The two masks joined with | for &.
filtered_of_either(t, g, a) ==
    SelectSeq(t, LAMBDA r : isin(r.Grade, g) \/ isin(r.Attendance_Level, a))

\* Student_data.py, filtered = df[df["Grade"].isin(grades) & ...]
filtered_of(t, g, a) == Mask(t, g, a)

\* Student_data_backup.py, filtered_df = df[(...isin(selected_grades)) & (...)]
filtered_df_of(t, g, a) == Mask(t, g, a)

\* df["Grade"].unique()
GradeOptions(t) == { t[i].Grade : i \in 1..Len(t) }

\* Student_data.py: df["Attendance_Level"].unique(), NaN included when present
main_AttendanceOptions(t) == { t[i].Attendance_Level : i \in 1..Len(t) }

\* Student_data_backup.py: df['Attendance_Level'].cat.categories
backup_AttendanceOptions(t) == {"Low", "Medium", "High"}

AttendanceOptions(t) ==
    IF script = "main" THEN main_AttendanceOptions(t) ELSE backup_AttendanceOptions(t)

----------------------------------------------------------------------------
\* KPI metrics.  A metric cell is <<>> when the value shown is NaN, else <<v>>.

\* Series.mean() of Average_Score, NaN skipped; [num, den] in tenths.
MeanAverageScore(t) ==
    LET q(i) == t[i].Average_Score
    IN  [num |-> Sum([i \in 1..Len(t) |->
                        IF IsNaN(q(i)) THEN 0 ELSE q(i).num * (6 \div q(i).den)]),
         den |-> 6 * Cardinality({ i \in 1..Len(t) : ~IsNaN(q(i)) })]

\* Series.mean() of Attendance, NaN skipped.
MeanAttendance(t) ==
    LET c(i) == t[i].Attendance
    IN  [num |-> Sum([i \in 1..Len(t) |-> IF IsNA(c(i)) THEN 0 ELSE Val(c(i))]),
         den |-> Cardinality({ i \in 1..Len(t) : ~IsNA(c(i)) })]

\* Series.max() of Average_Score, NaN skipped; NaN when there is no value.
MaxAverageScore(t) ==
    LET nums == { i \in 1..Len(t) : ~IsNaN(t[i].Average_Score) }
    IN  IF nums = {} THEN NaNMean
        ELSE t[CHOOSE i \in nums :
                 \A j \in nums : ~Less(t[i].Average_Score, t[j].Average_Score)
              ].Average_Score

\* round(q, digits) and f"{q:.<digits>f}": NaN stays NaN ("nan"); else the
\* value in units of 10^-digits (digits is 1 or 2).
Rounded(q, digits) ==
    IF IsNaN(q) THEN NA
    ELSE Num(RoundHalfEven(q.num * (IF digits = 2 THEN 10 ELSE 1), q.den))

\* Student_data.py lines 63-67
main_kpi_metrics(t) ==
    << Num(Len(t)),
       Rounded(MeanAverageScore(t), 2),
       IF IsNaN(MaxAverageScore(t)) THEN NA ELSE Num(MaxAverageScore(t)),
       Rounded(MeanAttendance(t), 1) >>

\* filtered_df['Grade'].value_counts().idxmax() of a table with rows: a most
\* frequent grade (which one among equally frequent grades is pandas' choice).
TopGrades(t) ==
    LET n(g) == Cardinality({ i \in 1..Len(t) : t[i].Grade = g })
    IN  { g \in GradeOptions(t) : \A h \in GradeOptions(t) : n(h) <= n(g) }

\* Student_data_backup.py lines 110-115
backup_kpi_metrics(t, top) ==
    << Num(Len(t)),
       Rounded(MeanAverageScore(t), 2),
       Rounded(MeanAttendance(t), 1),
       Num(top) >>

----------------------------------------------------------------------------
\* The session

Init ==
    /\ script \in Scripts
    /\ exists \in BOOLEAN
    /\ csv \in (IF exists THEN Tables ELSE {<<>>})
    /\ cache = <<>>
    /\ df = <<>>
    /\ clicked = FALSE
    /\ widgets = FALSE
    /\ grades = {}
    /\ attendance = {}
    /\ filtered = <<>>
    /\ kpi = <<>>
    /\ ran = {}
    /\ warned = FALSE
    /\ err = "none"
    /\ pc = "start"

\* Positions at which the sidebar widgets of the current run are on the page.
Rendered == {"filter", "check", "kpi", "tabs", "table", "download", "plots",
             "save", "backup", "footer", "done", "empty"}

\* Positions past the filter statement of the current run.
Filtered == Rendered \ {"filter"}

\* Streamlit starts the script again from its first line: the variables of the
\* previous run are gone, the session (widget values, cache) stays.
Rerun ==
    /\ df' = <<>>
    /\ filtered' = <<>>
    /\ kpi' = <<>>
    /\ ran' = {}
    /\ warned' = FALSE
    /\ err' = "none"
    /\ pc' = "start"

\* multiselect(label, options, default): the default on the first run, the
\* session's value afterwards.
Multiselect ==
    /\ widgets' = TRUE
    /\ grades' = IF widgets THEN grades ELSE GradeOptions(df)
    /\ attendance' = IF widgets THEN attendance ELSE AttendanceOptions(df)

\* ---- Student_data.py

\* lines 18-40: pd.read_csv raises when the file is missing
main_load ==
    /\ script = "main" /\ pc = "start"
    /\ IF exists
       THEN /\ df' = main_derive(csv)
            /\ pc' = "sidebar"
            /\ err' = err
       ELSE /\ err' = "FileNotFoundError"
            /\ pc' = "crashed"
            /\ df' = df
    /\ UNCHANGED <<script, exists, csv, cache, clicked, widgets, grades,
                   attendance, filtered, kpi, ran, warned>>

\* lines 45-55: the two multiselects, then the reset button, which is True in
\* the run its click started and asks for one more run
main_sidebar ==
    /\ script = "main" /\ pc = "sidebar"
    /\ Multiselect
    /\ clicked' = FALSE
    /\ IF clicked
       THEN Rerun
       ELSE /\ pc' = "filter"
            /\ UNCHANGED <<df, filtered, kpi, ran, warned, err>>
    /\ UNCHANGED <<script, exists, csv, cache>>

\* line 57 as a filter in place: df = df[...]
main_filtered_in_place ==
    /\ script = "main" /\ pc = "filter"
    /\ df' = filtered_of(df, grades, attendance)
    /\ filtered' = filtered_of(df, grades, attendance)
    /\ pc' = "kpi"
    /\ UNCHANGED <<script, exists, csv, cache, clicked, widgets, grades,
                   attendance, kpi, ran, warned, err>>

\* line 57
main_filtered ==
    /\ script = "main" /\ pc = "filter"
    /\ filtered' = filtered_of(df, grades, attendance)
    /\ pc' = "kpi"
    /\ UNCHANGED <<script, exists, csv, cache, df, clicked, widgets, grades,
                   attendance, kpi, ran, warned, err>>

\* lines 62-67
main_kpi ==
    /\ script = "main" /\ pc = "kpi"
    /\ kpi' = main_kpi_metrics(filtered)
    /\ ran' = ran \cup {"kpi"}
    /\ pc' = "tabs"
    /\ UNCHANGED <<script, exists, csv, cache, df, clicked, widgets, grades,
                   attendance, filtered, warned, err>>

\* lines 74-184: the five tabs of charts (their content is not modelled)
main_tabs ==
    /\ script = "main" /\ pc = "tabs"
    /\ ran' = ran \cup {"plots"}
    /\ pc' = "download"
    /\ UNCHANGED <<script, exists, csv, cache, df, clicked, widgets, grades,
                   attendance, filtered, kpi, warned, err>>

\* lines 189-194
main_download ==
    /\ script = "main" /\ pc = "download"
    /\ ran' = ran \cup {"table", "download"}
    /\ pc' = "done"
    /\ UNCHANGED <<script, exists, csv, cache, df, clicked, widgets, grades,
                   attendance, filtered, kpi, warned, err>>

\* ---- Student_data_backup.py

\* lines 35-67: load_data under st.cache_data; a missing file is reported with
\* st.error and the run stops
backup_load ==
    /\ script = "backup" /\ pc = "start"
    /\ IF cache # <<>>
       THEN /\ df' = cache[1]
            /\ pc' = "sidebar"
            /\ UNCHANGED <<cache, err>>
       ELSE IF exists
       THEN /\ df' = load_data(csv)
            /\ cache' = <<load_data(csv)>>
            /\ pc' = "sidebar"
            /\ err' = err
       ELSE /\ err' = "File not found"
            /\ pc' = "stopped"
            /\ UNCHANGED <<cache, df>>
    /\ UNCHANGED <<script, exists, csv, clicked, widgets, grades, attendance,
                   filtered, kpi, ran, warned>>

\* lines 79-96
backup_sidebar ==
    /\ script = "backup" /\ pc = "sidebar"
    /\ Multiselect
    /\ pc' = "filter"
    /\ UNCHANGED <<script, exists, csv, cache, df, clicked, filtered, kpi, ran,
                   warned, err>>

\* lines 98-101
backup_filtered_df ==
    /\ script = "backup" /\ pc = "filter"
    /\ filtered' = filtered_df_of(df, grades, attendance)
    /\ pc' = "check"
    /\ UNCHANGED <<script, exists, csv, cache, df, clicked, widgets, grades,
                   attendance, kpi, ran, warned, err>>

\* lines 103-105 without the st.stop()
backup_empty_check_no_stop ==
    /\ script = "backup" /\ pc = "check"
    /\ warned' = (Len(filtered) = 0)
    /\ pc' = "kpi"
    /\ UNCHANGED <<script, exists, csv, cache, df, clicked, widgets, grades,
                   attendance, filtered, kpi, ran, err>>

\* lines 103-105: if filtered_df.empty: st.warning(...); st.stop()
backup_empty_check ==
    /\ script = "backup" /\ pc = "check"
    /\ IF Len(filtered) = 0
       THEN /\ warned' = TRUE
            /\ pc' = "empty"
       ELSE /\ warned' = warned
            /\ pc' = "kpi"
    /\ UNCHANGED <<script, exists, csv, cache, df, clicked, widgets, grades,
                   attendance, filtered, kpi, ran, err>>

\* lines 110-115
backup_kpi ==
    /\ script = "backup" /\ pc = "kpi"
    /\ \E top \in TopGrades(filtered) : kpi' = backup_kpi_metrics(filtered, top)
    /\ ran' = ran \cup {"kpi"}
    /\ pc' = "table"
    /\ UNCHANGED <<script, exists, csv, cache, df, clicked, widgets, grades,
                   attendance, filtered, warned, err>>

\* lines 120-129
backup_table ==
    /\ script = "backup" /\ pc = "table"
    /\ ran' = ran \cup {"table", "download"}
    /\ pc' = "plots"
    /\ UNCHANGED <<script, exists, csv, cache, df, clicked, widgets, grades,
                   attendance, filtered, kpi, warned, err>>

\* lines 134-190: five plots, each shown and saved under PLOTS_DIR (their
\* content is not modelled)
backup_plots ==
    /\ script = "backup" /\ pc = "plots"
    /\ ran' = ran \cup {"plots", "plot_files"}
    /\ pc' = "save"
    /\ UNCHANGED <<script, exists, csv, cache, df, clicked, widgets, grades,
                   attendance, filtered, kpi, warned, err>>

\* lines 195-198: final_student_analysis.csv
backup_save_outputs ==
    /\ script = "backup" /\ pc = "save"
    /\ ran' = ran \cup {"final_csv"}
    /\ pc' = "backup"
    /\ UNCHANGED <<script, exists, csv, cache, df, clicked, widgets, grades,
                   attendance, filtered, kpi, warned, err>>

\* lines 203-217: the copy of the script, then the footer
backup_safe_backup ==
    /\ script = "backup" /\ pc = "backup"
    /\ ran' = ran \cup {"script_copy"}
    /\ pc' = "done"
    /\ UNCHANGED <<script, exists, csv, cache, df, clicked, widgets, grades,
                   attendance, filtered, kpi, warned, err>>

\* ---- The user

\* The user changes the selection of a multiselect on the page: the session
\* keeps the new values and the script runs again.
select ==
    /\ pc \in Rendered
    /\ \E g \in SUBSET GradeOptions(df), a \in SUBSET AttendanceOptions(df) :
          /\ <<g, a>> # <<grades, attendance>>
          /\ grades' = g
          /\ attendance' = a
    /\ Rerun
    /\ UNCHANGED <<script, exists, csv, cache, clicked, widgets>>

\* Student_data.py line 54: the user clicks "Reset Filters"
click_reset ==
    /\ script = "main" /\ pc \in Rendered
    /\ clicked' = TRUE
    /\ Rerun
    /\ UNCHANGED <<script, exists, csv, cache, widgets, grades, attendance>>

Next ==
    \/ main_load
    \/ main_sidebar
    \/ main_filtered
    \/ main_kpi
    \/ main_tabs
    \/ main_download
    \/ backup_load
    \/ backup_sidebar
    \/ backup_filtered_df
    \/ backup_empty_check
    \/ backup_kpi
    \/ backup_table
    \/ backup_plots
    \/ backup_save_outputs
    \/ backup_safe_backup
    \/ select
    \/ click_reset

Spec == Init /\ [][Next]_vars

----------------------------------------------------------------------------
\* Properties

\* Positions at which df holds the derived table of the current run.
Loaded == Rendered \cup {"sidebar"}

Recs == 1..Len(df)

AllSubjectsPresent(r) == \A c \in 1..Len(subjects) : ~IsNA(r[subjects[c]])

\* C1: for every record whose AverageScore is present, Grade is A when
\* AverageScore >= 90, B when 80 <= AverageScore < 90, C when
\* 70 <= AverageScore < 80, D below 70 (no upper bound), in both scripts.
C1_GradeIsStepFunction ==
    pc \in Loaded =>
        \A i \in Recs :
            LET q == df[i].Average_Score
                n == q.num
                d == q.den
            IN  d > 0 =>
                  /\ df[i].Grade \in {"A", "B", "C", "D"}
                  /\ (df[i].Grade = "A") <=> (n >= 900 * d)
                  /\ (df[i].Grade = "B") <=> (n >= 800 * d /\ n < 900 * d)
                  /\ (df[i].Grade = "C") <=> (n >= 700 * d /\ n < 800 * d)
                  /\ (df[i].Grade = "D") <=> (n < 700 * d)

\* A derived table with a record at exactly 90.0 (graded A) and a record just
\* below 90 (graded B).
C1_Witness ==
    /\ pc \in Loaded
    /\ \E i, j \in Recs :
          /\ df[i].Average_Score = [num |-> 2700, den |-> 3]
          /\ df[i].Grade = "A"
          /\ df[j].Average_Score = [num |-> 2690, den |-> 3]
          /\ df[j].Grade = "B"

\* The level of Attendance x (tenths) clamped to [0, 100]: Low on [0, 80],
\* Medium on (80, 90], High on (90, 100].
ClampedLevel(x) ==
    LET c == IF x < 0 THEN 0 ELSE IF x > 1000 THEN 1000 ELSE x
    IN  IF c <= 800 THEN "Low" ELSE IF c <= 900 THEN "Medium" ELSE "High"

\* C2: for every record with a numeric Attendance, AttendanceLevel is the
\* bucket of Attendance clamped to [0, 100] (0 and negatives Low, above 100
\* High), in each of the two scripts.
C2_LevelOfClampedAttendance ==
    pc \in Loaded =>
        \A i \in Recs :
            ~IsNA(df[i].Attendance) =>
                df[i].Attendance_Level = ClampedLevel(Val(df[i].Attendance))

\* The two records of the end-to-end example.
Example ==
    << Row("Asha", Num(950), Num(850), Num(1000), Num(920)),
       Row("Bala", Num(600), Num(650), Num(700),  Num(750)) >>

\* C3: for every record with all three subject scores, AverageScore is
\* (Math + Science + English) / 3; the example records derive grades A, D and
\* levels High, Low, and filtering them for grade A with every attendance level
\* allowed returns exactly the first record.
C3_AverageAndExample ==
    /\ pc \in Loaded =>
          \A i \in Recs :
              AllSubjectsPresent(df[i]) =>
                  /\ df[i].Average_Score.den > 0
                  /\ 3 * df[i].Average_Score.num =
                        (Val(df[i].Math) + Val(df[i].Science) + Val(df[i].English))
                            * df[i].Average_Score.den
    /\ (pc \in Loaded /\ csv = Example) =>
          /\ Len(df) = 2
          /\ df[1].Name = "Asha" /\ df[2].Name = "Bala"
          /\ df[1].Grade = "A" /\ df[1].Attendance_Level = "High"
          /\ df[2].Grade = "D" /\ df[2].Attendance_Level = "Low"
    /\ (pc \in Filtered /\ csv = Example /\ grades = {"A"}
            /\ attendance = AttendanceOptions(df)) =>
          /\ Len(filtered) = 1
          /\ filtered[1] = df[1]

\* The example filtered for grade A.
C3_Witness ==
    /\ csv = Example
    /\ pc \in Filtered
    /\ grades = {"A"}
    /\ attendance = AttendanceOptions(df)
    /\ Len(filtered) = 1
    /\ filtered[1].Name = "Asha"

\* The records of df that match the selections.
Matching ==
    { i \in Recs : df[i].Grade \in grades /\ df[i].Attendance_Level \in attendance }

\* The k-th smallest index of a set of indices.
Kth(S, k) == CHOOSE i \in S : Cardinality({ j \in S : j < i }) = k - 1

\* C4: the filtered view holds exactly the records whose Grade is in
\* allowedGrades and whose AttendanceLevel is in allowedAttendanceLevels, in
\* the order of the input.
C4_FilterExactAndOrdered ==
    pc \in Filtered =>
        /\ Len(filtered) = Cardinality(Matching)
        /\ \A k \in 1..Len(filtered) : filtered[k] = df[Kth(Matching, k)]
        /\ (Matching = Recs => filtered = df)

\* A narrowed selection that keeps two different records, in input order,
\* after the user changed the selection.
C4_Witness ==
    /\ script = "backup"
    /\ pc \in Filtered
    /\ attendance # AttendanceOptions(df)
    /\ Len(filtered) = 2
    /\ filtered[1].Name # filtered[2].Name
    /\ filtered[1] = df[1] /\ filtered[2] = df[2]

\* C5: with allowedGrades or allowedAttendanceLevels empty the filtered view
\* is empty whatever the input, and the filter step raises no error.
C5_EmptySelectionEmptyView ==
    (pc \in Filtered /\ (grades = {} \/ attendance = {})) =>
        /\ Len(filtered) = 0
        /\ err = "none"

\* Two records filtered with no grade selected.
C5_Witness ==
    /\ pc \in Filtered
    /\ grades = {}
    /\ attendance # {}
    /\ Len(df) = 2
    /\ Len(filtered) = 0
    /\ err = "none"

\* C6: a record whose AverageScore is absent has no Grade (none of A, B, C, D).
C6_AbsentAverageAbsentGrade ==
    pc \in Loaded =>
        \A i \in Recs :
            IsNaN(df[i].Average_Score) => df[i].Grade \notin {"A", "B", "C", "D"}

\* C7: a record with a missing subject score gets an absent AverageScore, or
\* the derivation fails; it never gets a number.
C7_MissingScoreNoAverage ==
    pc \in Loaded =>
        \/ err # "none"
        \/ \A i \in Recs :
              ~AllSubjectsPresent(df[i]) => IsNaN(df[i].Average_Score)

\* C8: the summary of an empty view (here of a table that has rows) shows
\* count 0 and neither NaN nor 0 for the mean AverageScore, the max
\* AverageScore and the mean Attendance.
C8_EmptySummaryNoNaN ==
    ("kpi" \in ran /\ Len(df) > 0 /\ Len(filtered) = 0) =>
        /\ kpi[1] = Num(0)
        /\ \A k \in 2..4 : ~IsNA(kpi[k]) /\ kpi[k] # Num(0)

\* The derived table of the session's CSV.
DerivedTable == IF script = "main" THEN main_derive(csv) ELSE load_data(csv)

\* C9: whatever the selections made so far, df is the table as derived, and
\* with every grade and every attendance level selected the view shows every
\* record that has a Grade and an AttendanceLevel.
C9_FilterLeavesTable ==
    /\ pc \in Loaded => df = DerivedTable
    /\ (pc \in Filtered /\ grades = GradeOptions(df)
            /\ attendance = AttendanceOptions(df)) =>
          \A i \in Recs :
              (df[i].Grade # "NaN" /\ df[i].Attendance_Level # "NaN") =>
                  \E k \in 1..Len(filtered) : filtered[k] = df[i]

\* A view narrowed to one of the two records of the table, df still whole.
C9_Witness ==
    /\ pc \in Filtered
    /\ Len(df) = 2
    /\ df = DerivedTable
    /\ grades # GradeOptions(df)
    /\ Len(filtered) = 1

\* C10: in Student_data_backup.py a run with an empty filtered view warns and
\* stops: no KPI, table, download, plot, plot file, output CSV or script copy;
\* and each of those steps runs only with a filtered view of at least one row.
C10_EmptyViewStops ==
    script = "backup" =>
        /\ (pc \in (Filtered \ {"check"}) /\ Len(filtered) = 0) =>
              (warned /\ pc = "empty" /\ ran = {} /\ Len(kpi) = 0)
        /\ ran # {} => (Len(filtered) > 0 /\ ~warned)
        /\ warned => pc = "empty"

\* A run of the backup script stopped on an empty view of a table with rows.
C10_Witness ==
    /\ script = "backup"
    /\ pc = "empty"
    /\ warned
    /\ Len(df) > 0
    /\ Len(filtered) = 0
    /\ ran = {}

====
